---------------------------- MODULE Spec2Model ----------------------------
(***************************************************************************)
(* A model of the seismic inverted index (src/src/inverted_index.rs):      *)
(* InvertedIndex::build (distribute, prune, per-list blocking, summaries   *)
(* and packing) and InvertedIndex::search (block gating, evaluation, the   *)
(* visited set and the top-k heap).                                        *)
(*                                                                         *)
(* Scores, vector values and query values are integers. The quantized     *)
(* summaries hold rationals with denominator 255; every quantity compared  *)
(* with a summary dot product is scaled by 255. Fractions of the           *)
(* configuration (max_fraction, centroid_fraction, summary_energy,         *)
(* heap_factor) are pairs <<numerator, denominator>>.                      *)
(* 64-bit words are four 16-bit limbs, least significant first.            *)
(***************************************************************************)
EXTENDS Integers, Sequences, FiniteSets, TLC

VARIABLES
    pc,                 \* position of the program
    failure,            \* why the program panicked, "none" otherwise
    dataset,            \* the forward index: a sequence of sparse vectors
    config,             \* Configuration {pruning, blocking, summarization}
    inverted_pairs,     \* build: component -> sequence of <<score, doc_id>>
    posting_lists,      \* the index: component -> PostingList
    query,              \* search: the arguments of the call
    terms,              \* search: the component ids whose lists are traversed, in order
    term_idx,           \* search: index in terms of the list being searched
    block_id,           \* search: next block of that list to gate
    blocks_to_evaluate, \* search: the queue of gated blocks
    heap,               \* search: HeapFaiss, a set of <<key, offset>>
    visited,            \* search: offsets already scored
    push_log,           \* search: the offsets pushed onto the heap, in order
    eval_log,           \* search: the blocks evaluated, <<component, block>>, in order
    results,            \* search: the returned list of <<score, doc_id>>
    arg_offset,         \* packing: vector_offset of the document packed
    arg_len,            \* packing: vector_len of the document packed
    packed,             \* packing: the stored 64-bit word
    unpacked,           \* packing: <<offset, len>> read back from the word
    rebuilt,            \* second build: component -> PostingList of the second run
    arg_block,          \* summaries: the block, a sequence of document ids
    arg_n_components,   \* summaries: n_components of fixed_size_summary
    arg_fraction,       \* summaries: fraction of energy_preserving_summary
    fixed_summary,      \* summaries: (components, values) of fixed_size_summary
    energy_summary      \* summaries: (components, values) of energy_preserving_summary

vars == <<pc, failure, dataset, config, inverted_pairs, posting_lists,
          query, terms, term_idx, block_id, blocks_to_evaluate, heap, visited,
          push_log, eval_log, results, arg_offset, arg_len, packed, unpacked,
          rebuilt, arg_block, arg_n_components, arg_fraction, fixed_summary,
          energy_summary>>

buildVars == <<dataset, config, inverted_pairs, posting_lists>>
searchVars == <<query, terms, term_idx, block_id, blocks_to_evaluate, heap,
                visited, push_log, eval_log, results>>
packVars == <<arg_offset, arg_len, packed, unpacked>>
summaryVars == <<arg_block, arg_n_components, arg_fraction, fixed_summary,
                 energy_summary>>

-----------------------------------------------------------------------------
(* Bounds of the model. *)

\* Largest number of documents of a dataset that is built.
MaxDocs == 2

\* Largest number of documents of a dataset that is built and then searched.
MaxSearchDocs == 2

\* The component ids of the datasets; Dim is dataset.dim().
Components == 0 .. 1

Dim == Cardinality(Components)

\* Largest k of a search.
MaxK == 2

\* The values of query_cut.
QueryCuts == 1 .. Dim

\* The values a document stores.
DocValues == {1, 2}

\* The values a query holds.
QueryValues == {-1, 1, 2}

-----------------------------------------------------------------------------
(* Helpers. *)

Min(a, b) == IF a < b THEN a ELSE b

Max(a, b) == IF a > b THEN a ELSE b

Range(s) == {s[i] : i \in DOMAIN s}

RECURSIVE SumSeq(_)
SumSeq(s) == IF s = <<>> THEN 0 ELSE Head(s) + SumSeq(Tail(s))

RECURSIVE Concat(_)
Concat(ss) == IF ss = <<>> THEN <<>> ELSE Head(ss) \o Concat(Tail(ss))

\* The elements of a finite set of integers in ascending order.
RECURSIVE Ascending(_)
Ascending(S) ==
    IF S = {} THEN <<>>
    ELSE LET m == CHOOSE x \in S : \A y \in S : x <= y
         IN <<m>> \o Ascending(S \ {m})

Injective(f) == \A i, j \in DOMAIN f : f[i] = f[j] => i = j

\* The rearrangements of sequence s.
Rearrangements(s) ==
    LET n == Len(s)
    IN {[i \in 1..n |-> s[f[i]]] : f \in {g \in [1..n -> 1..n] : Injective(g)}}

\* All functions on dom that map c into F[c].
RECURSIVE FunProduct(_, _)
FunProduct(F, dom) ==
    IF dom = {} THEN {<<>>}
    ELSE LET c == CHOOSE x \in dom : \A y \in dom : x >= y
         IN {g @@ (c :> x) : g \in FunProduct(F, dom \ {c}), x \in F[c]}

-----------------------------------------------------------------------------
(* 64-bit words, as four 16-bit limbs. *)

W16 == 65536

U16Max == 65535

RECURSIVE BitOr(_, _)
BitOr(a, b) ==
    IF a = 0 THEN b
    ELSE IF b = 0 THEN a
    ELSE 2 * BitOr(a \div 2, b \div 2) + (IF a % 2 = 1 \/ b % 2 = 1 THEN 1 ELSE 0)

RECURSIVE BitAnd(_, _)
BitAnd(a, b) ==
    IF a = 0 \/ b = 0 THEN 0
    ELSE 2 * BitAnd(a \div 2, b \div 2) + (IF a % 2 = 1 /\ b % 2 = 1 THEN 1 ELSE 0)

\* A usize or u64 below 2^31 as a word, and back.
ToWord(n) == <<n % W16, (n \div W16) % W16, 0, 0>>

FromWord(w) == w[1] + W16 * w[2]

\* w << 16 on 64 bits: the top limb is shifted out.
Shl16(w) == <<0, w[1], w[2], w[3]>>

\* w >> 16.
Shr16(w) == <<w[2], w[3], w[4], 0>>

Or64(a, b) == [i \in 1..4 |-> BitOr(a[i], b[i])]

And64(a, b) == [i \in 1..4 |-> BitAnd(a[i], b[i])]

\* A faulty pack_offset_len, for comparison: the offset is not shifted.
PackOffsetLenNoShift(offset, len) == Or64(offset, len)

\* ((offset as u64) << 16) | (len as u64)
PackOffsetLen(offset, len) == Or64(Shl16(offset), len)

\* ((pack >> 16) as usize, (pack & (u16::MAX as u64)) as usize)
UnpackOffsetLen(pack) == <<Shr16(pack), And64(pack, <<U16Max, 0, 0, 0>>)>>

-----------------------------------------------------------------------------
(* SparseDataset: the forward index. A vector is a sequence of             *)
(* <<component, value>> with strictly increasing components; document ids  *)
(* are 0-based, document d is dataset[d + 1].                              *)

VectorOf(f) == LET cs == Ascending(DOMAIN f) IN [i \in 1..Len(cs) |-> <<cs[i], f[cs[i]]>>]

Vectors == UNION {{VectorOf(f) : f \in [S -> DocValues]} : S \in SUBSET Components}

Datasets(n) == UNION {[1..m -> Vectors] : m \in 0..n}

DocIds(ds) == 0 .. Len(ds) - 1

VectorLen(ds, doc_id) == Len(ds[doc_id + 1])

\* offsets[doc_id]: the number of entries stored before the document.
VectorOffset(ds, doc_id) == SumSeq([i \in 1..doc_id |-> Len(ds[i])])

\* The flat buffer of <<component, value>> entries.
Flat(ds) == Concat(ds)

GetWithOffset(ds, offset, len) == SubSeq(Flat(ds), offset + 1, offset + len)

IterVector(ds, doc_id) == ds[doc_id + 1]

\* Binary search over the offsets array: a position holding the offset. Empty
\* vectors share their offset with the next document, and the search may stop at
\* any of the equal entries.
OffsetToId(ds, offset) == {d \in DocIds(ds) : VectorOffset(ds, d) = offset}

HasComponent(v, c) == \E i \in DOMAIN v : v[i][1] = c

ValueAt(v, c) == LET i == CHOOSE j \in DOMAIN v : v[j][1] = c IN v[i][2]


-----------------------------------------------------------------------------
(* Configuration. *)

FixedSizePruning(n) ==
    [kind |-> "FixedSize", n_postings |-> n, max_fraction |-> <<1, 1>>]

GlobalThreshold(n, f) ==
    [kind |-> "GlobalThreshold", n_postings |-> n, max_fraction |-> f]

FixedSizeBlocks(b) ==
    [kind |-> "FixedSize", block_size |-> b, centroid_fraction |-> <<1, 1>>,
     truncated_kmeans_training |-> FALSE]

RandomKmeans(cf, t) ==
    [kind |-> "RandomKmeans", block_size |-> 1, centroid_fraction |-> cf,
     truncated_kmeans_training |-> t]

FixedSizeSummaries(n) ==
    [kind |-> "FixedSize", n_components |-> n, summary_energy |-> <<1, 1>>]

EnergyPerserving(f) ==
    [kind |-> "EnergyPerserving", n_components |-> 0, summary_energy |-> f]

Prunings ==
    {FixedSizePruning(n) : n \in 1..3}
    \cup {GlobalThreshold(1, <<3, 2>>), GlobalThreshold(2, <<1, 2>>)}

Blockings ==
    {FixedSizeBlocks(b) : b \in 1..2}
    \cup {RandomKmeans(<<1, 1>>, FALSE), RandomKmeans(<<1, 1>>, TRUE)}

Summarizations == {FixedSizeSummaries(1), EnergyPerserving(<<1, 2>>)}

Configurations ==
    [pruning : Prunings, blocking : Blockings, summarization : Summarizations]

-----------------------------------------------------------------------------
(* InvertedIndex::build: distributing and pruning. *)

\* The postings of component c: <<score, doc_id>> in document order.
PostingsOf(ds, c) ==
    LET ids == [i \in 1..Len(ds) |-> i - 1]
        Has(d) == HasComponent(ds[d + 1], c)
        sel == SelectSeq(ids, Has)
    IN [i \in 1..Len(sel) |-> <<ValueAt(ds[sel[i] + 1], c), sel[i]>>]

DistributePostings(ds) == [c \in Components |-> PostingsOf(ds, c)]

\* sort_unstable_by descending score: any rearrangement in non-increasing score
\* order (the order of equal scores is not specified).
SortedByScoreDesc(list) ==
    {p \in Rearrangements(list) : \A i \in 1..Len(p) - 1 : p[i][1] >= p[i + 1][1]}

SortedByScoreAsc(list) ==
    {p \in Rearrangements(list) : \A i \in 1..Len(p) - 1 : p[i][1] <= p[i + 1][1]}

Truncate(s, n) == SubSeq(s, 1, Min(n, Len(s)))

\* A faulty fixed_pruning, for comparison: ascending sort before the truncation.
FixedPruningAscending(inverted, n_postings) ==
    FunProduct([c \in Components |->
                    {Truncate(p, n_postings) : p \in SortedByScoreAsc(inverted[c])}],
               Components)

\* fixed_pruning: the possible contents of inverted_pairs after each list is
\* sorted by descending score and truncated to n_postings.
FixedPruning(inverted, n_postings) ==
    FunProduct([c \in Components |->
                    {Truncate(p, n_postings) : p \in SortedByScoreDesc(inverted[c])}],
               Components)

\* A faulty cap, for comparison: the denominator of the fraction is dropped.
GlobalThresholdCapNoDivision(n_postings, max_fraction) == n_postings * max_fraction[1]

\* (n_postings as f32 * max_fraction) as usize
GlobalThresholdCap(n_postings, max_fraction) ==
    (n_postings * max_fraction[1]) \div max_fraction[2]

\* The tuples <score, docid, id_posting_list> of every list, list after list.
PostingsPool(inverted) ==
    Concat([i \in 1..Dim |->
                [j \in 1..Len(inverted[i - 1]) |->
                     <<inverted[i - 1][j][1], inverted[i - 1][j][2], i - 1>>]])

\* tot_postings after line 252; the pool is not empty.
TotPostings(inverted, n_postings) ==
    Min(Dim * n_postings, Len(PostingsPool(inverted)) - 1)

\* select_nth_unstable_by(tot) followed by take(tot): the positions of the pool
\* that may end among the first tot, i.e. every set of tot postings none of
\* which scores below a posting left out.
SelectNth(pool, tot) ==
    {K \in SUBSET (1..Len(pool)) :
        /\ Cardinality(K) = tot
        /\ \A i \in K, j \in (1..Len(pool)) \ K : pool[i][1] >= pool[j][1]}

\* global_threshold_pruning on a non-empty pool: the possible contents of
\* inverted_pairs. The order inside a list is left as in the pool; fixed_pruning
\* sorts every list right after.
GlobalThresholdPruning(inverted, n_postings) ==
    LET pool == PostingsPool(inverted)
        tot == TotPostings(inverted, n_postings)
        Back(K, c) ==
            LET In(i) == i \in K /\ pool[i][3] = c
                sel == SelectSeq([i \in 1..Len(pool) |-> i], In)
            IN [i \in 1..Len(sel) |-> <<pool[sel[i]][1], pool[sel[i]][2]>>]
    IN {[c \in Components |-> Back(K, c)] : K \in SelectNth(pool, tot)}

-----------------------------------------------------------------------------
(* PostingList::build: blocking. *)

\* fixed_size_blocking: i * block_size for i in 0..len / block_size, then len.
FixedSizeBlocking(posting_list, block_size) ==
    LET n == Len(posting_list)
    IN [i \in 1..(n \div block_size) |-> (i - 1) * block_size] \o <<n>>

\* ((centroid_fraction * len as f32) as usize).max(1)
NCentroids(centroid_fraction, n) ==
    Max((centroid_fraction[1] * n) \div centroid_fraction[2], 1)

\* do_random_kmeans_on_docids: the clusters, in centroid order. The centroids are
\* sampled at random, so every assignment of the documents to the n_centroids
\* centroids is a possible result; a cluster may be empty.
DoRandomKmeansOnDocids(posting_list, n_centroids) ==
    LET n == Len(posting_list)
        Cluster(a, k) ==
            LET In(i) == a[i] = k
                sel == SelectSeq([i \in 1..n |-> i], In)
            IN [i \in 1..Len(sel) |-> posting_list[sel[i]]]
    IN {[k \in 1..n_centroids |-> Cluster(a, k)] : a \in [1..n -> 1..n_centroids]}

\* The loop of lines 545-553: the reordered list and the block offsets.
RECURSIVE CollectClusters(_, _, _)
CollectClusters(clusters, reordered, block_offsets) ==
    IF clusters = <<>> THEN <<reordered, block_offsets>>
    ELSE IF Head(clusters) = <<>>
         THEN CollectClusters(Tail(clusters), reordered, block_offsets)
         ELSE CollectClusters(Tail(clusters), reordered \o Head(clusters),
                              Append(block_offsets, Len(reordered) + Len(Head(clusters))))

\* blocking_with_random_kmeans, untruncated: the possible pairs
\* <<reordered posting list, block_offsets>>.
BlockingWithRandomKmeans(posting_list, centroid_fraction) ==
    IF posting_list = <<>> THEN {<<posting_list, <<>>>>}
    ELSE {CollectClusters(cl, <<>>, <<0>>) :
            cl \in DoRandomKmeansOnDocids(posting_list,
                                          NCentroids(centroid_fraction, Len(posting_list)))}

\* The truncated path is todo!(): reached for a non-empty list only.
KmeansNotImplemented(posting_list, blocking) ==
    /\ blocking.kind = "RandomKmeans"
    /\ blocking.truncated_kmeans_training
    /\ posting_list # <<>>

\* The possible pairs <<posting list, block_offsets>> of one list.
Blocking(posting_list, blocking) ==
    IF blocking.kind = "FixedSize"
    THEN {<<posting_list, FixedSizeBlocking(posting_list, blocking.block_size)>>}
    ELSE BlockingWithRandomKmeans(posting_list, blocking.centroid_fraction)

-----------------------------------------------------------------------------
(* PostingList::build: summaries. *)

\* The hash map of both summaries: each component of the block's documents with
\* the largest value seen, as a set of <<component, value>>.
BlockMaxima(ds, block) ==
    LET comps == {c \in Components :
                    \E i \in DOMAIN block : HasComponent(IterVector(ds, block[i]), c)}
        MaxOf(c) ==
            CHOOSE v \in {ValueAt(IterVector(ds, block[i]), c) :
                            i \in {j \in DOMAIN block :
                                      HasComponent(IterVector(ds, block[j]), c)}} :
                /\ \E i \in DOMAIN block :
                      /\ HasComponent(IterVector(ds, block[i]), c)
                      /\ ValueAt(IterVector(ds, block[i]), c) = v
                /\ \A i \in DOMAIN block :
                      HasComponent(IterVector(ds, block[i]), c)
                          => ValueAt(IterVector(ds, block[i]), c) <= v
    IN {<<c, MaxOf(c)>> : c \in comps}

\* hash.iter().collect() sorted by decreasing value: the iteration order of the
\* map is arbitrary and the sort is unstable, so ties come in any order.
SortedByValueDesc(hash) ==
    LET n == Cardinality(hash)
    IN {p \in [1..n -> hash] :
          /\ Injective(p)
          /\ \A i \in 1..n - 1 : p[i][2] >= p[i + 1][2]}

\* The kept <<component, value>> pairs sorted by component id, as the pair
\* (components, values) the summaries return.
ByComponent(kept) ==
    LET cs == Ascending({e[1] : e \in kept})
        ValueOf(c) == (CHOOSE e \in kept : e[1] = c)[2]
    IN <<cs, [i \in 1..Len(cs) |-> ValueOf(cs[i])]>>

\* A faulty fixed_size_summary, for comparison: the kept pairs stay in the order
\* of decreasing value.
FixedSizeSummaryByValue(ds, block, n_components) ==
    {<<[i \in 1..Len(Truncate(p, n_components)) |-> p[i][1]],
       [i \in 1..Len(Truncate(p, n_components)) |-> p[i][2]]>> :
        p \in SortedByValueDesc(BlockMaxima(ds, block))}

\* fixed_size_summary: the possible results.
FixedSizeSummary(ds, block, n_components) ==
    {ByComponent(Range(Truncate(p, n_components))) :
        p \in SortedByValueDesc(BlockMaxima(ds, block))}

\* (acc / total_sum) > fraction on f32: the quotient of a negative total_sum
\* reverses the order, x / 0 is +inf for x > 0, -inf for x < 0 and NaN for
\* x = 0, and a comparison with NaN is false.
QuotientExceeds(acc, total_sum, fraction) ==
    IF total_sum > 0 THEN acc * fraction[2] > fraction[1] * total_sum
    ELSE IF total_sum < 0 THEN acc * fraction[2] < fraction[1] * total_sum
    ELSE acc > 0

\* A faulty prefix, for comparison: it stops as soon as acc / total_sum reaches
\* the fraction.
RECURSIVE EnergyPrefixAtLeast(_, _, _, _, _)
EnergyPrefixAtLeast(p, i, acc, total_sum, fraction) ==
    IF i > Len(p) THEN Len(p)
    ELSE IF \/ QuotientExceeds(acc + p[i][2], total_sum, fraction)
            \/ (acc + p[i][2]) * fraction[2] = fraction[1] * total_sum
         THEN i
         ELSE EnergyPrefixAtLeast(p, i + 1, acc + p[i][2], total_sum, fraction)

\* The number of entries the loop of lines 631-638 pushes: it stops after the
\* first entry at which acc / total_sum > fraction.
RECURSIVE EnergyPrefix(_, _, _, _, _)
EnergyPrefix(p, i, acc, total_sum, fraction) ==
    IF i > Len(p) THEN Len(p)
    ELSE IF QuotientExceeds(acc + p[i][2], total_sum, fraction) THEN i
         ELSE EnergyPrefix(p, i + 1, acc + p[i][2], total_sum, fraction)

\* energy_preserving_summary: the possible results.
EnergyPreservingSummary(ds, block, fraction) ==
    {ByComponent(Range(SubSeq(p, 1,
                    EnergyPrefix(p, 1, 0, SumSeq([i \in 1..Len(p) |-> p[i][2]]), fraction)))) :
        p \in SortedByValueDesc(BlockMaxima(ds, block))}

Summary(ds, block, summarization) ==
    IF summarization.kind = "FixedSize"
    THEN FixedSizeSummary(ds, block, summarization.n_components)
    ELSE EnergyPreservingSummary(ds, block, summarization.summary_energy)

\* The spacing of the half-precision floats around an integer magnitude m: 1 up
\* to 2048, doubling with every power of two after that.
RECURSIVE F16Spacing(_)
F16Spacing(m) == IF m < 2048 THEN 1 ELSE 2 * F16Spacing(m \div 2)

\* quantize_f16 on an integer value: the nearest half-precision float, ties to the
\* even multiple of the spacing.
QuantizeF16(v) ==
    LET m == IF v < 0 THEN -v ELSE v
        sp == F16Spacing(m)
        lo == (m \div sp) * sp
        r == IF 2 * (m - lo) < sp THEN lo
             ELSE IF 2 * (m - lo) > sp THEN lo + sp
             ELSE IF (lo \div sp) % 2 = 0 THEN lo ELSE lo + sp
    IN IF v < 0 THEN -r ELSE r

\* One row of QuantizedSummary: min, 255 * scale = max - min, and each value v as
\* round((v - min) / scale) in 0..255 (0 when scale = 0).
QuantizeRow(summary) ==
    LET cs == summary[1]
        vs == [i \in 1..Len(cs) |-> QuantizeF16(summary[2][i])]
        lo == IF vs = <<>> THEN 0 ELSE CHOOSE x \in Range(vs) : \A y \in Range(vs) : x <= y
        hi == IF vs = <<>> THEN 0 ELSE CHOOSE x \in Range(vs) : \A y \in Range(vs) : x >= y
        Q(v) == IF hi = lo THEN 0
                ELSE (2 * 255 * (v - lo) + (hi - lo)) \div (2 * (hi - lo))
    IN [min |-> lo, scale255 |-> hi - lo,
        entries |-> [i \in 1..Len(cs) |-> <<cs[i], Q(vs[i])>>]]

-----------------------------------------------------------------------------
(* PostingList::build. *)

\* The windows(2) of block_offsets as document-id blocks of the list.
BlocksOf(posting_list, block_offsets) ==
    [b \in 1..(IF Len(block_offsets) = 0 THEN 0 ELSE Len(block_offsets) - 1) |->
        SubSeq(posting_list, block_offsets[b] + 1, block_offsets[b + 1])]

\* Lines 492-497.
PackPostings(ds, posting_list) ==
    [i \in 1..Len(posting_list) |->
        PackOffsetLen(ToWord(VectorOffset(ds, posting_list[i])),
                      ToWord(VectorLen(ds, posting_list[i])))]

\* Lines 470-506: the possible posting lists once the blocking has returned
\* bl = <<posting list, block_offsets>>.
PostingListsOfBlocking(ds, bl, cfg) ==
    LET blocks == BlocksOf(bl[1], bl[2])
        rows == FunProduct([b \in 1..Len(blocks) |->
                               Summary(ds, blocks[b], cfg.summarization)],
                           1..Len(blocks))
    IN {[packed_postings |-> PackPostings(ds, bl[1]),
         block_offsets |-> bl[2],
         summaries |-> [b \in 1..Len(blocks) |-> QuantizeRow(r[b])]] : r \in rows}

\* Line 448: the document ids of the postings.
DocIdsOf(postings) == [i \in 1..Len(postings) |-> postings[i][2]]

\* The possible posting lists built from the pruned postings of one component.
PostingListBuild(ds, postings, cfg) ==
    UNION {PostingListsOfBlocking(ds, bl, cfg) :
              bl \in Blocking(DocIdsOf(postings), cfg.blocking)}

-----------------------------------------------------------------------------
(* The steps of InvertedIndex::build. *)

NoSearch ==
    /\ query = [components |-> <<>>, values |-> <<>>, k |-> 0, query_cut |-> 0,
                heap_factor |-> <<1, 1>>]
    /\ terms = <<>>
    /\ term_idx = 0
    /\ block_id = 0
    /\ blocks_to_evaluate = <<>>
    /\ heap = {}
    /\ visited = {}
    /\ push_log = <<>>
    /\ eval_log = <<>>
    /\ results = <<>>

NoPacking ==
    /\ arg_offset = <<0, 0, 0, 0>>
    /\ arg_len = <<0, 0, 0, 0>>
    /\ packed = <<0, 0, 0, 0>>
    /\ unpacked = <<>>

NoRebuild == rebuilt = [c \in Components |-> <<>>]

NoSummary ==
    /\ arg_block = <<>>
    /\ arg_n_components = 0
    /\ arg_fraction = <<1, 1>>
    /\ fixed_summary = <<>>
    /\ energy_summary = <<>>

InitBuild ==
    /\ pc = "start"
    /\ failure = "none"
    /\ dataset \in Datasets(MaxDocs)
    /\ config \in Configurations
    /\ inverted_pairs = [c \in Components |-> <<>>]
    /\ posting_lists = [c \in Components |-> <<>>]
    /\ NoSearch
    /\ NoPacking
    /\ NoRebuild
    /\ NoSummary

\* Lines 164-173.
Distribute ==
    /\ pc = "start"
    /\ inverted_pairs' = DistributePostings(dataset)
    /\ pc' = "distributed"
    /\ UNCHANGED <<failure, dataset, config, posting_lists, searchVars, packVars, rebuilt, summaryVars>>

\* Lines 184-186.
PruneFixedSize ==
    /\ pc = "distributed"
    /\ config.pruning.kind = "FixedSize"
    /\ inverted_pairs' \in FixedPruning(inverted_pairs, config.pruning.n_postings)
    /\ pc' = "pruned"
    /\ UNCHANGED <<failure, dataset, config, posting_lists, searchVars, packVars, rebuilt, summaryVars>>

\* Line 192. On an empty pool, postings.len() - 1 overflows (a panic where
\* overflow is checked) and select_nth_unstable_by panics on the empty slice.
PruneGlobalThreshold ==
    /\ pc = "distributed"
    /\ config.pruning.kind = "GlobalThreshold"
    /\ IF PostingsPool(inverted_pairs) = <<>>
       THEN /\ pc' = "panic"
            /\ failure' = "global_threshold_pruning: empty pool"
            /\ UNCHANGED inverted_pairs
       ELSE /\ inverted_pairs' \in
                    GlobalThresholdPruning(inverted_pairs, config.pruning.n_postings)
            /\ pc' = "selected"
            /\ UNCHANGED failure
    /\ UNCHANGED <<dataset, config, posting_lists, searchVars, packVars, rebuilt, summaryVars>>

\* Lines 193-196.
CutLongLists ==
    /\ pc = "selected"
    /\ inverted_pairs' \in
            FixedPruning(inverted_pairs,
                         GlobalThresholdCap(config.pruning.n_postings,
                                            config.pruning.max_fraction))
    /\ pc' = "pruned"
    /\ UNCHANGED <<failure, dataset, config, posting_lists, searchVars, packVars, rebuilt, summaryVars>>

\* Lines 208-226.
BuildPostingLists ==
    /\ pc = "pruned"
    /\ IF \E c \in Components :
              KmeansNotImplemented(inverted_pairs[c], config.blocking)
       THEN /\ pc' = "panic"
            /\ failure' = "not implemented"
            /\ UNCHANGED posting_lists
       ELSE /\ posting_lists' \in
                    FunProduct([c \in Components |->
                                   PostingListBuild(dataset, inverted_pairs[c], config)],
                               Components)
            /\ pc' = "built"
            /\ UNCHANGED failure
    /\ UNCHANGED <<dataset, config, inverted_pairs, searchVars, packVars, rebuilt, summaryVars>>

NextBuild ==
    \/ Distribute
    \/ PruneFixedSize
    \/ PruneGlobalThreshold
    \/ CutLongLists
    \/ BuildPostingLists

SpecBuild == InitBuild /\ [][NextBuild]_vars

\* A second run of build on the same dataset with the same configuration.
\* sort_unstable_by and select_nth_unstable_by are functions of their input, so
\* the second run prunes to the same inverted_pairs; with the same centroid
\* choices the blocking returns the same <<posting list, block_offsets>>. Each
\* summary iterates over a HashMap of its own, whose RandomState is seeded anew,
\* so the second run draws its summaries afresh.
SameBlockingBuilds(c) ==
    UNION {PostingListsOfBlocking(dataset, bl, config) :
              bl \in {x \in Blocking(DocIdsOf(inverted_pairs[c]), config.blocking) :
                         posting_lists[c] \in PostingListsOfBlocking(dataset, x, config)}}

Rebuild ==
    /\ pc = "built"
    /\ rebuilt' \in FunProduct([c \in Components |-> SameBlockingBuilds(c)], Components)
    /\ pc' = "rebuilt"
    /\ UNCHANGED <<failure, buildVars, searchVars, packVars, summaryVars>>

NextRebuild ==
    \/ Distribute
    \/ PruneFixedSize
    \/ PruneGlobalThreshold
    \/ CutLongLists
    \/ BuildPostingLists
    \/ Rebuild

SpecRebuild == InitBuild /\ [][NextRebuild]_vars

\* Configurations that the types admit although a field is outside its
\* meaningful range: n_postings = 0, centroid_fraction = 0 or 2, summary_energy
\* = 0 or 2.
OutOfRangePrunings == {FixedSizePruning(0), GlobalThreshold(0, <<3, 2>>)}

OutOfRangeBlockings == {RandomKmeans(<<0, 1>>, FALSE), RandomKmeans(<<2, 1>>, FALSE)}

OutOfRangeSummarizations == {EnergyPerserving(<<0, 1>>), EnergyPerserving(<<2, 1>>)}

OutOfRangeConfigurations ==
    [pruning : OutOfRangePrunings,
     blocking : {FixedSizeBlocks(1), RandomKmeans(<<1, 1>>, FALSE)},
     summarization : {FixedSizeSummaries(1), EnergyPerserving(<<1, 2>>)}]
    \cup [pruning : {FixedSizePruning(2), GlobalThreshold(1, <<3, 2>>)},
          blocking : OutOfRangeBlockings,
          summarization : {FixedSizeSummaries(1), EnergyPerserving(<<1, 2>>)}]
    \cup [pruning : {FixedSizePruning(2), GlobalThreshold(1, <<3, 2>>)},
          blocking : {FixedSizeBlocks(1), RandomKmeans(<<1, 1>>, FALSE)},
          summarization : OutOfRangeSummarizations]

\* build called with such a configuration.
InitBuildOutOfRange ==
    /\ pc = "start"
    /\ failure = "none"
    /\ dataset \in Datasets(MaxDocs)
    /\ config \in OutOfRangeConfigurations
    /\ inverted_pairs = [c \in Components |-> <<>>]
    /\ posting_lists = [c \in Components |-> <<>>]
    /\ NoSearch
    /\ NoPacking
    /\ NoRebuild
    /\ NoSummary

SpecBuildOutOfRange == InitBuildOutOfRange /\ [][NextBuild]_vars

-----------------------------------------------------------------------------
(* Distance kernels, the top-k heap and the summary product. *)

THRESHOLD_BINARY_SEARCH == 10

\* dot_product_with_merge: both vectors sorted by component.
RECURSIVE DotProductWithMerge(_, _, _)
DotProductWithMerge(query_components, query_values, v) ==
    IF query_components = <<>> \/ v = <<>> THEN 0
    ELSE IF query_components[1] = v[1][1]
         THEN query_values[1] * v[1][2]
              + DotProductWithMerge(Tail(query_components), Tail(query_values), Tail(v))
         ELSE IF query_components[1] < v[1][1]
              THEN DotProductWithMerge(Tail(query_components), Tail(query_values), v)
              ELSE DotProductWithMerge(query_components, query_values, Tail(v))

\* dot_product_dense_sparse: the query as a dense array of length dim.
DotProductDenseSparse(dense, v) == SumSeq([i \in 1..Len(v) |-> dense[v[i][1]] * v[i][2]])

\* vec![0.0; dim] with query[i] = v for every query component (all below dim).
DenseQuery(q) ==
    [c \in Components |->
        IF \E i \in DOMAIN q.components : q.components[i] = c
        THEN q.values[CHOOSE i \in DOMAIN q.components : q.components[i] = c]
        ELSE 0]

\* The heap orders its entries <<key, id>> by key, then by id.
HeapLess(a, b) == a[1] < b[1] \/ (a[1] = b[1] /\ a[2] < b[2])

HeapMax(h) == CHOOSE a \in h : \A b \in h : a = b \/ HeapLess(b, a)

\* heap.top(): the largest key.
HeapTop(h) == HeapMax(h)[1]

\* push_with_id: insert until full, then replace the maximum by a smaller key.
HeapPush(h, k, key, id) ==
    IF Cardinality(h) < k THEN h \cup {<<key, id>>}
    ELSE IF key < HeapTop(h) THEN (h \ {HeapMax(h)}) \cup {<<key, id>>}
         ELSE h

\* heap.topk(): the entries by increasing key.
RECURSIVE HeapTopk(_)
HeapTopk(h) ==
    IF h = {} THEN <<>>
    ELSE LET m == CHOOSE a \in h : \A b \in h : a = b \/ HeapLess(a, b)
         IN <<m>> \o HeapTopk(h \ {m})

\* matmul_with_query, times 255: for every row, the sum over the entries whose
\* component is in the query of query_value * (min + scale * q).
MatmulWithQuery(summaries, query_components, query_values) ==
    LET Term(row, e) ==
            IF \E i \in DOMAIN query_components : query_components[i] = e[1]
            THEN query_values[CHOOSE i \in DOMAIN query_components :
                                  query_components[i] = e[1]]
                 * (255 * row.min + row.scale255 * e[2])
            ELSE 0
    IN [b \in 1..Len(summaries) |->
          SumSeq([j \in 1..Len(summaries[b].entries) |->
                     Term(summaries[b], summaries[b].entries[j])])]

-----------------------------------------------------------------------------
(* InvertedIndex::search and PostingList::search. *)

HeapFactors == {<<1, 1>>, <<1, 2>>}

\* Query vectors: the sorted sparse vectors over the components of the dataset,
\* and vectors with the component Dim, one past the last component of the dataset.
QueryVectors ==
    UNION {{VectorOf(f) : f \in [S -> QueryValues]} : S \in SUBSET Components}
    \cup UNION {{VectorOf(f) : f \in [S \cup {Dim} -> {1}]} : S \in SUBSET Components}

QueryOf(v, k, query_cut, heap_factor) ==
    [components |-> [i \in 1..Len(v) |-> v[i][1]],
     values |-> [i \in 1..Len(v) |-> v[i][2]],
     k |-> k, query_cut |-> query_cut, heap_factor |-> heap_factor]

\* Lines 131-135: the components in non-increasing value order (ties in any
\* order), cut to query_cut.
TermOrders(q) ==
    LET pairs == [i \in 1..Len(q.components) |-> <<q.values[i], q.components[i]>>]
    IN {[i \in 1..Min(q.query_cut, Len(p)) |-> p[i][2]] : p \in SortedByScoreDesc(pairs)}

DistanceOf(ds, q, offset, len) ==
    IF Len(q.components) < THRESHOLD_BINARY_SEARCH
    THEN DotProductWithMerge(q.components, q.values, GetWithOffset(ds, offset, len))
    ELSE DotProductDenseSparse(DenseQuery(q), GetWithOffset(ds, offset, len))

\* A faulty evaluate_posting_block, for comparison: every posting is scored,
\* visited or not.
RECURSIVE EvaluateWithoutVisited(_, _, _, _)
EvaluateWithoutVisited(ds, q, block, st) ==
    IF block = <<>> THEN st
    ELSE LET ol == UnpackOffsetLen(Head(block))
             offset == FromWord(ol[1])
             len == FromWord(ol[2])
         IN EvaluateWithoutVisited(ds, q, Tail(block),
                [heap |-> HeapPush(st.heap, q.k, -DistanceOf(ds, q, offset, len), offset),
                 visited |-> st.visited \cup {offset},
                 log |-> Append(st.log, offset)])

\* evaluate_posting_block on a non-empty block: every posting whose offset is not
\* visited is scored, marked visited and pushed with the negated distance.
RECURSIVE EvaluatePostingBlock(_, _, _, _)
EvaluatePostingBlock(ds, q, block, st) ==
    IF block = <<>> THEN st
    ELSE LET ol == UnpackOffsetLen(Head(block))
             offset == FromWord(ol[1])
             len == FromWord(ol[2])
         IN EvaluatePostingBlock(ds, q, Tail(block),
                IF offset \in st.visited THEN st
                ELSE [heap |-> HeapPush(st.heap, q.k, -DistanceOf(ds, q, offset, len), offset),
                      visited |-> st.visited \cup {offset},
                      log |-> Append(st.log, offset)])

\* The blocks of the queue, evaluated in order. A queued slice of
\* packed_postings is kept with the list and the block it is a slice of.
RECURSIVE EvaluateQueue(_, _, _, _)
EvaluateQueue(ds, q, queue, st) ==
    IF queue = <<>> THEN st
    ELSE EvaluateQueue(ds, q, Tail(queue),
                       EvaluatePostingBlock(ds, q, Head(queue).postings, st))

EvaluatedBlocks(queue) == [i \in 1..Len(queue) |-> <<queue[i].list, queue[i].block>>]

CurrentList == posting_lists[terms[term_idx]]

CurrentDots == MatmulWithQuery(CurrentList.summaries, query.components, query.values)

\* A faulty gate, for comparison: a block whose dot equals the bound is skipped.
SkipConditionAtMost(h, q, dot255) ==
    /\ Cardinality(h) = q.k
    /\ dot255 * q.heap_factor[2] <= -(q.heap_factor[1] * HeapTop(h) * 255)

\* heap.len() == k && dot < -heap_factor * heap.top(), the dot scaled by 255.
SkipCondition(h, q, dot255) ==
    /\ Cardinality(h) = q.k
    /\ dot255 * q.heap_factor[2] < -(q.heap_factor[1] * HeapTop(h) * 255)

PackedPostingBlock(list, b) ==
    SubSeq(list.packed_postings, list.block_offsets[b + 1] + 1, list.block_offsets[b + 2])

\* Lines 122-128.
SearchStart ==
    /\ pc = "built"
    /\ \E v \in QueryVectors, k \in 1..MaxK, cut \in QueryCuts, hf \in HeapFactors :
         LET q == QueryOf(v, k, cut, hf)
         IN /\ query' = q
            /\ IF \E i \in DOMAIN q.components : q.components[i] >= Dim
               THEN /\ pc' = "panic"
                    /\ failure' = "search: index out of bounds"
                    /\ UNCHANGED terms
               ELSE /\ pc' = "searching"
                    /\ terms' \in TermOrders(q)
                    /\ UNCHANGED failure
    /\ term_idx' = 1
    /\ block_id' = 0
    /\ blocks_to_evaluate' = <<>>
    /\ heap' = {}
    /\ visited' = {}
    /\ push_log' = <<>>
    /\ eval_log' = <<>>
    /\ UNCHANGED <<results, buildVars, packVars, rebuilt, summaryVars>>

\* Lines 341-343: the block is skipped.
SkipBlock ==
    /\ pc = "searching"
    /\ term_idx <= Len(terms)
    /\ block_id < Len(CurrentDots)
    /\ SkipCondition(heap, query, CurrentDots[block_id + 1])
    /\ block_id' = block_id + 1
    /\ UNCHANGED <<pc, failure, query, terms, term_idx, blocks_to_evaluate, heap,
                   visited, push_log, eval_log, results, buildVars, packVars, rebuilt, summaryVars>>

\* A faulty loop body, for comparison: the queued block is not evaluated before
\* the next one is queued.
EnqueueBlockWithoutFlush ==
    /\ pc = "searching"
    /\ term_idx <= Len(terms)
    /\ block_id < Len(CurrentDots)
    /\ ~SkipCondition(heap, query, CurrentDots[block_id + 1])
    /\ blocks_to_evaluate' =
          Append(blocks_to_evaluate,
                 [list |-> terms[term_idx], block |-> block_id,
                  postings |-> PackedPostingBlock(CurrentList, block_id)])
    /\ block_id' = block_id + 1
    /\ UNCHANGED <<pc, failure, query, terms, term_idx, heap, visited, push_log,
                   eval_log, results, buildVars, packVars, rebuilt, summaryVars>>

\* Lines 345-367: the queued block, if any, is evaluated and the block is queued.
EnqueueBlock ==
    /\ pc = "searching"
    /\ term_idx <= Len(terms)
    /\ block_id < Len(CurrentDots)
    /\ ~SkipCondition(heap, query, CurrentDots[block_id + 1])
    /\ LET st == IF Len(blocks_to_evaluate) = 1
                 THEN EvaluateQueue(dataset, query, blocks_to_evaluate,
                                    [heap |-> heap, visited |-> visited, log |-> push_log])
                 ELSE [heap |-> heap, visited |-> visited, log |-> push_log]
           kept == IF Len(blocks_to_evaluate) = 1 THEN <<>> ELSE blocks_to_evaluate
       IN /\ heap' = st.heap
          /\ visited' = st.visited
          /\ push_log' = st.log
          /\ eval_log' = IF Len(blocks_to_evaluate) = 1
                         THEN eval_log \o EvaluatedBlocks(blocks_to_evaluate)
                         ELSE eval_log
          /\ blocks_to_evaluate' =
                Append(kept, [list |-> terms[term_idx], block |-> block_id,
                              postings |-> PackedPostingBlock(CurrentList, block_id)])
    /\ block_id' = block_id + 1
    /\ UNCHANGED <<pc, failure, query, terms, term_idx, results, buildVars, packVars, rebuilt, summaryVars>>

\* Lines 370-381: the queue is evaluated and the search of the list returns.
FinishList ==
    /\ pc = "searching"
    /\ term_idx <= Len(terms)
    /\ block_id = Len(CurrentDots)
    /\ LET st == EvaluateQueue(dataset, query, blocks_to_evaluate,
                               [heap |-> heap, visited |-> visited, log |-> push_log])
       IN /\ heap' = st.heap
          /\ visited' = st.visited
          /\ push_log' = st.log
    /\ eval_log' = eval_log \o EvaluatedBlocks(blocks_to_evaluate)
    /\ blocks_to_evaluate' = <<>>
    /\ term_idx' = term_idx + 1
    /\ block_id' = 0
    /\ UNCHANGED <<pc, failure, query, terms, results, buildVars, packVars, rebuilt, summaryVars>>

\* The lists (dot.abs(), offset_to_id(offset)) of the heap's topk.
SearchResults(ds, h) ==
    LET top == HeapTopk(h)
        Abs(x) == IF x < 0 THEN -x ELSE x
    IN {[i \in 1..Len(top) |-> <<Abs(top[i][1]), ids[i]>>] :
          ids \in FunProduct([i \in 1..Len(top) |-> OffsetToId(ds, top[i][2])],
                             1..Len(top))}

\* Lines 149-152.
SearchReturn ==
    /\ pc = "searching"
    /\ term_idx > Len(terms)
    /\ results' \in SearchResults(dataset, heap)
    /\ pc' = "done"
    /\ UNCHANGED <<failure, query, terms, term_idx, block_id, blocks_to_evaluate, heap,
                   visited, push_log, eval_log, buildVars, packVars, rebuilt, summaryVars>>

SearchConfigurations ==
    [pruning : {FixedSizePruning(MaxSearchDocs)},
     blocking : {FixedSizeBlocks(1), FixedSizeBlocks(2), RandomKmeans(<<1, 1>>, FALSE)},
     summarization : {FixedSizeSummaries(Dim), EnergyPerserving(<<1, 2>>)}]

Init ==
    /\ pc = "start"
    /\ failure = "none"
    /\ dataset \in Datasets(MaxSearchDocs)
    /\ config \in SearchConfigurations
    /\ inverted_pairs = [c \in Components |-> <<>>]
    /\ posting_lists = [c \in Components |-> <<>>]
    /\ NoSearch
    /\ NoPacking
    /\ NoRebuild
    /\ NoSummary

\* The searched indexes are built with FixedSize pruning.
Next ==
    \/ Distribute
    \/ PruneFixedSize
    \/ BuildPostingLists
    \/ SearchStart
    \/ SkipBlock
    \/ EnqueueBlock
    \/ FinishList
    \/ SearchReturn

Spec == Init /\ [][Next]_vars

-----------------------------------------------------------------------------
(* Packing one posting: lines 492-497 for one document of the posting list,   *)
(* whose vector_offset and vector_len are any two usize values.               *)

OffsetLimbs == {0, 1, 12345, 65535}

LenLimbs == {0, 1, 67, 65535}

InitPack ==
    /\ pc = "pack"
    /\ failure = "none"
    /\ dataset = <<>>
    /\ config = [pruning |-> FixedSizePruning(1), blocking |-> FixedSizeBlocks(1),
                 summarization |-> FixedSizeSummaries(1)]
    /\ inverted_pairs = [c \in Components |-> <<>>]
    /\ posting_lists = [c \in Components |-> <<>>]
    /\ NoSearch
    /\ arg_offset \in [1..4 -> OffsetLimbs]
    /\ arg_len \in {<<a, b, 0, 0>> : a \in LenLimbs, b \in {0, 1}}
    /\ packed = <<0, 0, 0, 0>>
    /\ unpacked = <<>>
    /\ NoRebuild
    /\ NoSummary

\* Line 495: the word is stored in packed_postings.
PackPosting ==
    /\ pc = "pack"
    /\ packed' = PackOffsetLen(arg_offset, arg_len)
    /\ pc' = "packed"
    /\ UNCHANGED <<failure, buildVars, searchVars, arg_offset, arg_len, unpacked,
                 rebuilt, summaryVars>>

\* Lines 397 and 400: the word is read back.
UnpackPosting ==
    /\ pc = "packed"
    /\ unpacked' = UnpackOffsetLen(packed)
    /\ pc' = "unpacked"
    /\ UNCHANGED <<failure, buildVars, searchVars, arg_offset, arg_len, packed,
                 rebuilt, summaryVars>>

NextPack ==
    \/ PackPosting
    \/ UnpackPosting

SpecPack == InitPack /\ [][NextPack]_vars

-----------------------------------------------------------------------------
(* The two summaries of one block. *)

\* The fractions and the n_components the summaries are called with; Dim + 1
\* stands for an n_components above the number of components.
SummaryFractions == {<<1, 4>>, <<1, 2>>, <<3, 4>>, <<1, 1>>}

SummaryNComponents == 1 .. Dim + 1

\* The values of the summarized documents: a DataType is signed and may be 0.
SummaryValues == {-1, 0, 1, 2}

SummaryVectors ==
    UNION {{VectorOf(f) : f \in [S -> SummaryValues]} : S \in SUBSET Components}

SummaryDatasets(n) == UNION {[1..m -> SummaryVectors] : m \in 0..n}

\* The block: every document of the dataset, in document order.
BlockOfDocuments(ds) == [i \in 1..Len(ds) |-> i - 1]

InitSummary ==
    /\ pc = "summary"
    /\ failure = "none"
    /\ dataset \in SummaryDatasets(MaxDocs)
    /\ config = [pruning |-> FixedSizePruning(1), blocking |-> FixedSizeBlocks(1),
                 summarization |-> FixedSizeSummaries(1)]
    /\ inverted_pairs = [c \in Components |-> <<>>]
    /\ posting_lists = [c \in Components |-> <<>>]
    /\ NoSearch
    /\ NoPacking
    /\ NoRebuild
    /\ arg_block = BlockOfDocuments(dataset)
    /\ arg_n_components \in SummaryNComponents
    /\ arg_fraction \in SummaryFractions
    /\ fixed_summary = <<>>
    /\ energy_summary = <<>>

\* Lines 564-600.
FixedSizeSummarize ==
    /\ pc = "summary"
    /\ fixed_summary' \in FixedSizeSummary(dataset, arg_block, arg_n_components)
    /\ pc' = "fixed"
    /\ UNCHANGED <<failure, buildVars, searchVars, packVars, rebuilt, arg_block,
                   arg_n_components, arg_fraction, energy_summary>>

\* Lines 602-642.
EnergyPreservingSummarize ==
    /\ pc = "fixed"
    /\ energy_summary' \in EnergyPreservingSummary(dataset, arg_block, arg_fraction)
    /\ pc' = "summarized"
    /\ UNCHANGED <<failure, buildVars, searchVars, packVars, rebuilt, arg_block,
                   arg_n_components, arg_fraction, fixed_summary>>

NextSummary ==
    \/ FixedSizeSummarize
    \/ EnergyPreservingSummarize

SpecSummary == InitSummary /\ [][NextSummary]_vars

-----------------------------------------------------------------------------
(* Properties of build. *)

\* The documents that contain component c and their postings, read off the
\* dataset.
DocsWith(c) == {d \in DocIds(dataset) : HasComponent(dataset[d + 1], c)}

AllPostings(c) == {<<ValueAt(dataset[d + 1], c), d>> : d \in DocsWith(c)}

AllPooled == UNION {{<<e[1], e[2], c>> : e \in AllPostings(c)} : c \in Components}

KeptPooled == Range(PostingsPool(inverted_pairs))

\* C1: after build, every posting list (empty lists and lists shorter than
\* block_size included) has block_offsets with one more entry than there are
\* summary rows, starting at 0, ending at len(packed_postings) and strictly
\* increasing.
BlockOffsetsPartitionEveryList ==
    pc = "built" =>
        \A c \in Components :
            LET bo == posting_lists[c].block_offsets
            IN /\ Len(bo) = Len(posting_lists[c].summaries) + 1
               /\ bo[1] = 0
               /\ bo[Len(bo)] = Len(posting_lists[c].packed_postings)
               /\ \A i \in 1..Len(bo) - 1 : bo[i] < bo[i + 1]

\* C6: the global selection of GlobalThreshold pruning completes on every pool
\* (the empty one included) and keeps exactly the min(n_postings * D, P)
\* highest-scoring postings of the pool of P postings, each in the list it came
\* from.
GlobalSelectionKeepsTop ==
    /\ failure # "global_threshold_pruning: empty pool"
    /\ pc = "selected" =>
          /\ Cardinality(KeptPooled) =
                Min(config.pruning.n_postings * Dim, Cardinality(AllPooled))
          /\ KeptPooled \subseteq AllPooled
          /\ \A a \in KeptPooled, b \in AllPooled \ KeptPooled : a[1] >= b[1]

\* ceil(n * f) for the fraction f.
CeilOfProduct(n, f) == (n * f[1] + f[2] - 1) \div f[2]

\* C7: after pruning with GlobalThreshold{n, f}, and in the index built from it,
\* every posting list has at most ceil(n * f) entries.
GlobalThresholdListsWithinCap ==
    (pc \in {"pruned", "built"} /\ config.pruning.kind = "GlobalThreshold") =>
        \A c \in Components :
            /\ Len(inverted_pairs[c])
                  <= CeilOfProduct(config.pruning.n_postings, config.pruning.max_fraction)
            /\ pc = "built" =>
                  Len(posting_lists[c].packed_postings)
                      <= CeilOfProduct(config.pruning.n_postings,
                                       config.pruning.max_fraction)

\* C7, witness: an index built with GlobalThreshold in which a list that every
\* global selection leaves longer than ceil(n * f) ends with the cap's length.
GlobalThresholdCapActed ==
    /\ pc = "built"
    /\ config.pruning.kind = "GlobalThreshold"
    /\ \E c \in Components :
          /\ \A sel \in GlobalThresholdPruning(DistributePostings(dataset),
                                              config.pruning.n_postings) :
                Len(sel[c]) > CeilOfProduct(config.pruning.n_postings,
                                            config.pruning.max_fraction)
          /\ Len(posting_lists[c].packed_postings) = 1

\* C8: after FixedSize{n} pruning, and in the index built from it, every list has
\* min(n, number of documents with the component) entries, all of them postings
\* of the component, and no dropped posting scores above a kept one.
FixedSizeKeepsTopPostings ==
    (pc \in {"pruned", "built"} /\ config.pruning.kind = "FixedSize") =>
        \A c \in Components :
            LET kept == Range(inverted_pairs[c])
            IN /\ Len(inverted_pairs[c])
                     = Min(config.pruning.n_postings, Cardinality(DocsWith(c)))
               /\ Cardinality(kept) = Len(inverted_pairs[c])
               /\ kept \subseteq AllPostings(c)
               /\ \A a \in kept, b \in AllPostings(c) \ kept : b[1] <= a[1]
               /\ pc = "built" =>
                     Len(posting_lists[c].packed_postings) = Len(inverted_pairs[c])

\* C8, witness: an index built after FixedSize pruning dropped a posting that
\* scores strictly below a kept one.
FixedSizeDroppedLowerScore ==
    /\ pc = "built"
    /\ config.pruning.kind = "FixedSize"
    /\ \E c \in Components :
          \E a \in Range(inverted_pairs[c]), b \in AllPostings(c) \ Range(inverted_pairs[c]) :
              b[1] < a[1]

-----------------------------------------------------------------------------
(* Properties of packing. *)

\* C2: for offset < 2^48 and len < 2^16, unpack_offset_len(pack_offset_len(offset,
\* len)) = (offset, len).
PackRoundTrip ==
    (/\ pc = "unpacked"
     /\ arg_offset[4] = 0
     /\ arg_len[2] = 0 /\ arg_len[3] = 0 /\ arg_len[4] = 0)
        => unpacked = <<arg_offset, arg_len>>

\* C2, witness: the largest offset and length, 2^48 - 1 and 2^16 - 1, packed and
\* read back.
PackRoundTripAtLimits ==
    /\ pc = "unpacked"
    /\ arg_offset = <<65535, 65535, 65535, 0>>
    /\ arg_len = <<65535, 0, 0, 0>>
    /\ packed = <<65535, 65535, 65535, 65535>>
    /\ unpacked = <<arg_offset, arg_len>>

\* C10: build fails when a stored document has an offset above 2^48 - 1 or a
\* length above 2^16 - 1, and a stored word always unpacks to the document's
\* offset and length.
OutOfRangePostingRejected ==
    pc \in {"packed", "unpacked"} =>
        /\ (arg_offset[4] # 0 \/ arg_len[2] # 0 \/ arg_len[3] # 0 \/ arg_len[4] # 0)
              => failure # "none"
        /\ UnpackOffsetLen(packed) = <<arg_offset, arg_len>>

-----------------------------------------------------------------------------
(* Properties of search. *)

\* The inner product of the query and a vector.
Similarity(q, v) ==
    SumSeq([i \in 1..Len(q.components) |->
               IF HasComponent(v, q.components[i])
               THEN q.values[i] * ValueAt(v, q.components[i])
               ELSE 0])

\* The documents that share a component with the query.
Candidates(q) ==
    {d \in DocIds(dataset) :
        \E i \in DOMAIN q.components : HasComponent(dataset[d + 1], q.components[i])}

\* x is the i-th largest similarity among the candidates.
IsIthLargest(q, x, i) ==
    /\ Cardinality({d \in Candidates(q) : Similarity(q, dataset[d + 1]) > x}) < i
    /\ Cardinality({d \in Candidates(q) : Similarity(q, dataset[d + 1]) >= x}) >= i

\* C3: with FixedSize pruning that keeps every posting, FixedSize blocking,
\* FixedSize summaries of n_components >= D, non-negative values, query_cut >=
\* the number of query terms and heap_factor = 1, search returns min(k, number of
\* candidates) results and the i-th returned similarity is the i-th largest.
ExactTopK ==
    (/\ pc = "done"
     /\ config.pruning.kind = "FixedSize"
     /\ config.pruning.n_postings >= Len(dataset)
     /\ config.blocking.kind = "FixedSize"
     /\ config.summarization.kind = "FixedSize"
     /\ config.summarization.n_components >= Dim
     /\ \A i \in DOMAIN query.values : query.values[i] >= 0
     /\ query.query_cut >= Len(query.components)
     /\ query.heap_factor = <<1, 1>>)
        => /\ Len(results) = Min(query.k, Cardinality(Candidates(query)))
           /\ \A i \in DOMAIN results : IsIthLargest(query, results[i][1], i)

\* The offsets of the postings of a block of a list.
BlockOffsetsOf(c, b) ==
    LET block == PackedPostingBlock(posting_lists[c], b)
    IN {FromWord(UnpackOffsetLen(block[i])[1]) : i \in DOMAIN block}

\* C4: during a search no document is pushed onto the heap twice, every
\* document of an evaluated block has been pushed, and the returned list holds
\* no document id twice.
DocumentsPushedOnce ==
    pc \in {"searching", "done"} =>
        /\ Injective(push_log)
        /\ \A i \in DOMAIN eval_log :
              BlockOffsetsOf(eval_log[i][1], eval_log[i][2]) \subseteq Range(push_log)
        /\ pc = "done" => \A i, j \in DOMAIN results :
                              results[i][2] = results[j][2] => i = j

\* C4, witness: a finished search that evaluated blocks of two posting lists
\* holding the same document, which is in the returned list.
DocumentInTwoEvaluatedBlocks ==
    /\ pc = "done"
    /\ \E i, j \in DOMAIN eval_log :
          /\ eval_log[i][1] # eval_log[j][1]
          /\ \E o \in BlockOffsetsOf(eval_log[i][1], eval_log[i][2])
                          \cap BlockOffsetsOf(eval_log[j][1], eval_log[j][2]) :
                /\ \E r \in DOMAIN results : results[r][2] \in OffsetToId(dataset, o)
                /\ Cardinality({n \in DOMAIN push_log : push_log[n] = o}) = 1

\* C5: the returned list is in decreasing order of the reported score, each
\* reported score is the similarity of its document to the query, and of two
\* results with the same similarity the one with the smaller document id comes
\* first. Stated for the datasets without empty vectors, where every offset
\* belongs to one document.
ResultsByDecreasingSimilarity ==
    (pc = "done" /\ \A d \in DocIds(dataset) : VectorLen(dataset, d) > 0) =>
        /\ \A i \in DOMAIN results :
              results[i][1] = Similarity(query, dataset[results[i][2] + 1])
        /\ \A i, j \in DOMAIN results :
              i < j => \/ results[i][1] > results[j][1]
                       \/ /\ results[i][1] = results[j][1]
                          /\ results[i][2] < results[j][2]

\* C9: a search whose query holds a component id >= D does not fail.
OutOfRangeQueryComponentIgnored ==
    (\E i \in DOMAIN query.components : query.components[i] >= Dim)
        => failure # "search: index out of bounds"

-----------------------------------------------------------------------------
(* Properties of the configuration. *)

\* A fraction <<numerator, denominator>> outside (0, 1].
NotAProperFraction(f) == f[1] <= 0 \/ f[1] > f[2]

\* The configurations the specification calls invalid.
InvalidConfiguration(cfg) ==
    \/ cfg.pruning.n_postings = 0
    \/ cfg.blocking.kind = "RandomKmeans"
          /\ NotAProperFraction(cfg.blocking.centroid_fraction)
    \/ cfg.summarization.kind = "EnergyPerserving"
          /\ NotAProperFraction(cfg.summarization.summary_energy)

\* C11: build with an invalid configuration (n_postings = 0, centroid_fraction
\* or summary fraction outside (0, 1]) fails at entry: no posting is
\* distributed and no index is returned.
InvalidConfigurationFailsAtEntry ==
    InvalidConfiguration(config) =>
        /\ pc \notin {"distributed", "selected", "pruned", "built"}
        /\ inverted_pairs = [c \in Components |-> <<>>]

-----------------------------------------------------------------------------
(* Properties of two runs of build. *)

\* C12: two runs of build on the same dataset with the same configuration and
\* the same centroid choices produce the same posting lists (packed_postings,
\* block_offsets and summaries), ties at a truncation boundary included.
BuildIsDeterministic ==
    pc = "rebuilt" => \A c \in Components : rebuilt[c] = posting_lists[c]

-----------------------------------------------------------------------------
(* Properties of the summaries. *)

\* The components that occur in the block and the largest value of each.
BlockComponents ==
    {c \in Components : \E i \in DOMAIN arg_block : HasComponent(dataset[arg_block[i] + 1], c)}

BlockValues(c) ==
    {ValueAt(dataset[arg_block[i] + 1], c) :
        i \in {j \in DOMAIN arg_block : HasComponent(dataset[arg_block[j] + 1], c)}}

BlockMaximum(c) == CHOOSE v \in BlockValues(c) : \A w \in BlockValues(c) : w <= v

\* summary = (components, values) holds exactly the components of kept, in
\* strictly ascending order, each with its block maximum.
HoldsAscending(summary, kept) ==
    /\ Len(summary) = 2
    /\ Len(summary[1]) = Len(summary[2])
    /\ {summary[1][i] : i \in DOMAIN summary[1]} = kept
    /\ \A i \in 1..Len(summary[1]) - 1 : summary[1][i] < summary[1][i + 1]
    /\ \A i \in DOMAIN summary[1] : summary[2][i] = BlockMaximum(summary[1][i])

\* C13: with fraction = 1 the energy-preserving summary of a block equals its
\* fixed-size summary with n_components not below the number of components:
\* both hold every component of the block, ascending, with its block maximum.
EnergyOneEqualsUnboundedFixedSize ==
    (pc = "summarized" /\ arg_fraction = <<1, 1>> /\ arg_n_components >= Dim) =>
        /\ energy_summary = fixed_summary
        /\ HoldsAscending(energy_summary, BlockComponents)
        /\ HoldsAscending(fixed_summary, BlockComponents)

\* No document of the block holds a negative value.
BlockIsNonNegative ==
    \A i \in DOMAIN arg_block :
        \A j \in DOMAIN dataset[arg_block[i] + 1] : dataset[arg_block[i] + 1][j][2] >= 0

\* C13, amended: the same for the blocks without negative values.
EnergyOneEqualsUnboundedFixedSizeNonNegative ==
    (/\ pc = "summarized"
     /\ arg_fraction = <<1, 1>>
     /\ arg_n_components >= Dim
     /\ BlockIsNonNegative) =>
        /\ energy_summary = fixed_summary
        /\ HoldsAscending(energy_summary, BlockComponents)
        /\ HoldsAscending(fixed_summary, BlockComponents)

\* C13, witness: both summaries of a block of two documents that between them
\* hold every component, with different maxima, the larger on the larger id.
FullSummariesOfTwoDocuments ==
    /\ pc = "summarized"
    /\ BlockIsNonNegative
    /\ arg_fraction = <<1, 1>>
    /\ arg_n_components >= Dim
    /\ Len(arg_block) = 2
    /\ BlockComponents = Components
    /\ \E c \in Components : ~HasComponent(dataset[arg_block[1] + 1], c)
    /\ BlockMaximum(0) < BlockMaximum(1)
    /\ energy_summary = fixed_summary
    /\ Len(energy_summary[1]) = Dim

\* The orders of the block's components by descending block maximum.
DescendingOrders ==
    {p \in [1..Cardinality(BlockComponents) -> BlockComponents] :
        /\ Injective(p)
        /\ \A i \in 1..Len(p) - 1 : BlockMaximum(p[i]) >= BlockMaximum(p[i + 1])}

\* The sum of the maxima of the first k components of the order p.
PrefixSum(p, k) == SumSeq([i \in 1..k |-> BlockMaximum(p[i])])

\* The length of the shortest prefix of p whose sum strictly exceeds fraction *
\* total_sum; the whole of p when no prefix does.
ShortestExceeding(p, f) ==
    LET Exceeds(k) == PrefixSum(p, k) * f[2] > f[1] * PrefixSum(p, Len(p))
    IN IF \E k \in 1..Len(p) : Exceeds(k)
       THEN CHOOSE k \in 1..Len(p) : Exceeds(k) /\ \A j \in 1..k - 1 : ~Exceeds(j)
       ELSE Len(p)

\* C14: the energy-preserving summary holds, in strictly ascending component
\* order and each with its block maximum, the components of the shortest prefix,
\* in an order by descending maximum, whose sum strictly exceeds fraction *
\* total_sum (every component when no prefix does).
EnergySummaryIsShortestPrefix ==
    pc = "summarized" =>
        \E p \in DescendingOrders :
            HoldsAscending(energy_summary,
                           {p[i] : i \in 1..ShortestExceeding(p, arg_fraction)})

\* sum / total > f as the code's f32 quotient decides it: the order is reversed
\* below a negative total, and over a zero total only a positive sum exceeds.
SumOverTotalExceeds(sum, total, f) ==
    \/ total > 0 /\ sum * f[2] > f[1] * total
    \/ total < 0 /\ sum * f[2] < f[1] * total
    \/ total = 0 /\ sum > 0

ShortestQuotientExceeding(p, f) ==
    LET Exceeds(k) == SumOverTotalExceeds(PrefixSum(p, k), PrefixSum(p, Len(p)), f)
    IN IF \E k \in 1..Len(p) : Exceeds(k)
       THEN CHOOSE k \in 1..Len(p) : Exceeds(k) /\ \A j \in 1..k - 1 : ~Exceeds(j)
       ELSE Len(p)

\* C14, amended: the kept prefix is the shortest whose cumulative sum divided by
\* total_sum strictly exceeds fraction (every component when no prefix does).
EnergySummaryIsShortestQuotientPrefix ==
    pc = "summarized" =>
        \E p \in DescendingOrders :
            HoldsAscending(energy_summary,
                           {p[i] : i \in 1..ShortestQuotientExceeding(p, arg_fraction)})

\* C14, witness: a block whose summary drops a component, and a block whose
\* first component reaches fraction * total_sum exactly and does not stop the
\* prefix.
EnergySummaryCutsPrefix ==
    /\ pc = "summarized"
    /\ BlockComponents = Components
    /\ \A c \in Components : BlockMaximum(c) > 0
    /\ \/ /\ Len(energy_summary[1]) = 1
          /\ BlockMaximum(0) # BlockMaximum(1)
       \/ /\ arg_fraction = <<1, 2>>
          /\ BlockMaximum(0) = BlockMaximum(1)
          /\ Len(energy_summary[1]) = 2

-----------------------------------------------------------------------------
(* Properties of the traversal of one posting list. *)

\* A step of the loop over the blocks of a list: block block_id is examined.
BlockExamined == pc = "searching" /\ block_id' = block_id + 1

\* The search of a posting list returns.
ListReturned == pc = "searching" /\ term_idx' = term_idx + 1

\* The heap holds k entries and the dot of the examined block is below
\* -heap_factor * heap.top() (both sides times 255 and the denominator).
BelowHeapBound ==
    /\ Cardinality(heap) = query.k
    /\ CurrentDots[block_id + 1] * query.heap_factor[2]
          < -(query.heap_factor[1] * HeapTop(heap) * 255)

\* The blocks <<component, block>> evaluated so far followed by the queued ones.
EvaluatedThenQueued ==
    eval_log \o [i \in 1..Len(blocks_to_evaluate) |->
                    <<blocks_to_evaluate[i].list, blocks_to_evaluate[i].block>>]

\* C15: an examined block is skipped (neither queued nor evaluated) if and only
\* if, when it is examined, the heap holds exactly k entries and dot_b <
\* -heap_factor * heap.top(); no block is skipped while the heap holds fewer
\* than k entries.
BlockSkippedIffBelowHeapBound ==
    [][BlockExamined =>
          /\ (EvaluatedThenQueued' = EvaluatedThenQueued) <=> BelowHeapBound
          /\ (Cardinality(heap) < query.k) =>
                (EvaluatedThenQueued'
                    = Append(EvaluatedThenQueued, <<terms[term_idx], block_id>>))]_vars

\* C15, witness: a finished search with k pushes or more that left a block of a
\* traversed list unevaluated.
BlockWasSkipped ==
    /\ pc = "done"
    /\ Len(push_log) >= query.k
    /\ \E i \in DOMAIN terms :
          \E b \in 0..Len(posting_lists[terms[i]].summaries) - 1 :
              \A j \in DOMAIN eval_log : eval_log[j] # <<terms[i], b>>

\* C16: every block that is not skipped joins the queue when it is examined,
\* the blocks are evaluated in the order in which they were queued (their stored
\* order), each once, the queue never holds more than one block, and when the
\* search of the list returns every queued block is evaluated and the queue is
\* empty.
BlocksEvaluatedOnceInStoredOrder ==
    /\ [](Len(blocks_to_evaluate) <= 1)
    /\ [][/\ BlockExamined =>
               (/\ EvaluatedThenQueued' =
                      IF BelowHeapBound THEN EvaluatedThenQueued
                      ELSE Append(EvaluatedThenQueued, <<terms[term_idx], block_id>>)
                /\ eval_log' \in {eval_log, EvaluatedThenQueued})
          /\ ListReturned =>
               (/\ eval_log' = EvaluatedThenQueued
                /\ blocks_to_evaluate' = <<>>)]_vars

\* C16, witness: the second block of a list waits in the queue while the first
\* block of that list is the last one evaluated.
SecondBlockQueuedAfterFirstEvaluated ==
    /\ pc = "searching"
    /\ Len(blocks_to_evaluate) = 1
    /\ blocks_to_evaluate[1].block = 1
    /\ eval_log # <<>>
    /\ eval_log[Len(eval_log)] = <<blocks_to_evaluate[1].list, 0>>

=============================================================================
